---- MODULE Spec2Model ----
(***************************************************************************)
(* Model of the timetracking command line tool (src/src/main.rs).          *)
(*                                                                         *)
(* One invocation of the binary is main(): read_data, one command,         *)
(* write_data.  The persisted log is the variable data.  Launch starts an  *)
(* invocation; each command action is then the whole of main() for that    *)
(* command.  Instants are whole seconds (the store keeps ts_seconds, so    *)
(* every event a later invocation reads has no sub-second part), counted   *)
(* in UTC from 2021-03-01T00:00:00Z.  Local wall-clock time is a fixed     *)
(* offset behind UTC.  Calendar dates are day ordinals counted from local  *)
(* 2021-03-01, a Monday.                                                   *)
(*                                                                         *)
(* SpecMain takes main() apart into read_data, the command and write_data, *)
(* run by two processes on one data file: store is the file, procs what    *)
(* each process holds in memory, writer the process that wrote the file.   *)
(***************************************************************************)
EXTENDS Integers, Sequences, FiniteSets, TLC

VARIABLES data, clock, pc, out, store, procs, writer

vars == <<data, clock, pc, out, store, procs, writer>>
\* the state of the invocations that overlap (SpecMain)
mainVars == <<store, procs, writer>>

(***************************************************************************)
(* Bounds of the model.                                                    *)
(***************************************************************************)
\* longest log of Spec, whose invocations take every input
MaxLog == 3
\* longest log of SpecLog, whose invocations stamp events with the clock
MaxDeep == 5
\* longest log of SpecMain
MaxStore == 2

(***************************************************************************)
(* Option<T>: None is the empty sequence, Some(x) the one-element one.     *)
(***************************************************************************)
None == <<>>
Some(x) == <<x>>
IsSome(o) == Len(o) = 1
Unwrap(o) == o[1]

(***************************************************************************)
(* Strings that are searched or compared are sequences of characters.      *)
(***************************************************************************)
StrWeek == <<"w", "e", "e", "k">>
StrAll == <<"a", "l", "l">>
StrAB == <<"a", "b">>
StrB == <<"b">>

\* str::contains
Contains(s, pat) ==
    \E i \in 1..(Len(s) + 1) :
        /\ i + Len(pat) - 1 <= Len(s)
        /\ SubSeq(s, i, i + Len(pat) - 1) = pat

(***************************************************************************)
(* Calendar and clock.                                                     *)
(***************************************************************************)
\* seconds the local zone is behind UTC (the Local time zone of the host)
TzWest == 18000

\* NaiveDate as a day ordinal; the model's calendar covers March and April 2021
MarchDays == 31
AprilDays == 30
MonthOf(date) == IF date < MarchDays THEN 3 ELSE 4
DayOf(date) == IF date < MarchDays THEN date + 1 ELSE date - MarchDays + 1
DaysInMonth(m) == IF m = 3 THEN MarchDays ELSE AprilDays
\* Weekday::num_days_from_monday
NumDaysFromMonday(date) == date % 7

\* NaiveDate::with_day: None when the month has no such day
WithDay(date, day) ==
    IF day >= 1 /\ day <= DaysInMonth(MonthOf(date))
    THEN Some(date - DayOf(date) + day)
    ELSE None

\* NaiveDateTime: local seconds since local 2021-03-01 00:00:00
NaiveDT(date, h, m, s) == date * 86400 + h * 3600 + m * 60 + s
DateOfNaive(ndt) == ndt \div 86400
\* TimeZone::from_local_datetime(&Local, ..) then with_timezone(&Utc)
FromLocal(ndt) == ndt + TzWest
\* DateTime<Utc> -> local wall clock
ToLocal(t) == t - TzWest
\* Local::today()
Today(now) == DateOfNaive(ToLocal(now))
\* DateTime::with_second(0)
WithSecond0(t) == t - (t % 60)

(***************************************************************************)
(* Command line strings denoting times.  A string is kept as its tokens:   *)
(* an optional date, the colon separated time fields that follow, and a    *)
(* flag for text no format accepts.  Appending ":0" appends a zero field.  *)
(***************************************************************************)
TimeStr(date, hms) == [date |-> date, hms |-> hms, junk |-> FALSE]
JunkStr == [date |-> None, hms |-> <<>>, junk |-> TRUE]
Pad(s) == [s EXCEPT !.hms = Append(s.hms, 0)]

ValidHMS(hms) ==
    /\ Len(hms) = 3
    /\ hms[1] \in 0..23
    /\ hms[2] \in 0..59
    /\ hms[3] \in 0..59

\* NaiveTime::parse_from_str(s, "%H:%M:%S").is_ok()
ParsesAsTime(s) == ~s.junk /\ s.date = None /\ ValidHMS(s.hms)
\* NaiveDateTime::parse_from_str(s, "%Y-%m-%d %H:%M:%S").is_ok()
ParsesAsDateTime(s) == ~s.junk /\ IsSome(s.date) /\ ValidHMS(s.hms)
\* NaiveDate::parse_from_str(s, "%Y-%m-%d").is_ok()
ParsesAsDate(s) == ~s.junk /\ IsSome(s.date) /\ s.hms = <<>>

TimeValue(s, today) == NaiveDT(today, s.hms[1], s.hms[2], s.hms[3])
DateTimeValue(s) == NaiveDT(Unwrap(s.date), s.hms[1], s.hms[2], s.hms[3])

\* parse_date_time: [ok |-> FALSE] is the panic of the final unwrap
parse_date_time(s, now) ==
    IF ParsesAsTime(s)
    THEN [ok |-> TRUE, time |-> FromLocal(TimeValue(s, Today(now)))]
    ELSE IF ParsesAsTime(Pad(s))
    THEN [ok |-> TRUE, time |-> FromLocal(TimeValue(Pad(s), Today(now)))]
    ELSE IF ParsesAsTime(Pad(Pad(s)))
    THEN [ok |-> TRUE, time |-> FromLocal(TimeValue(Pad(Pad(s)), Today(now)))]
    ELSE IF ParsesAsDateTime(s)
    THEN [ok |-> TRUE, time |-> FromLocal(DateTimeValue(s))]
    ELSE IF ParsesAsDateTime(Pad(s))
    THEN [ok |-> TRUE, time |-> FromLocal(DateTimeValue(Pad(s)))]
    ELSE IF ParsesAsDateTime(Pad(Pad(s)))
    THEN [ok |-> TRUE, time |-> FromLocal(DateTimeValue(Pad(Pad(s))))]
    ELSE [ok |-> FALSE, time |-> 0]

(***************************************************************************)
(* Events.                                                                 *)
(***************************************************************************)
StartEvent(description, time) ==
    [kind |-> "Start", description |-> description, time |-> time]
StopEvent(description, time) ==
    [kind |-> "Stop", description |-> description, time |-> time]
is_start(e) == e.kind = "Start"
is_stop(e) == e.kind = "Stop"
\* TrackingEvent::time
EventTime(e, include_seconds) ==
    IF include_seconds THEN e.time ELSE WithSecond0(e.time)

\* Vec::last
Last(log) == IF Len(log) = 0 THEN None ELSE Some(log[Len(log)])

(***************************************************************************)
(* The mutating commands.  Each yields the new log, whether a message was  *)
(* written to stderr, and whether the invocation panicked.                 *)
(***************************************************************************)
Outcome(log, stderr, panicked) ==
    [log |-> log, stderr |-> stderr, panicked |-> panicked]

\* the `time:` expression of start_tracking and stop_tracking
EventTimeArg(at, now) ==
    IF IsSome(at) THEN parse_date_time(Unwrap(at), now)
    ELSE [ok |-> TRUE, time |-> now]

\* mutant: start appends whatever the last event is
StartShouldAdd_Always(log) == TRUE

StartShouldAdd(log) ==
    IF Last(log) = None THEN TRUE ELSE is_stop(Unwrap(Last(log)))

start_tracking(log, description, at, now) ==
    IF StartShouldAdd(log)
    THEN LET t == EventTimeArg(at, now)
         IN  IF t.ok
             THEN Outcome(Append(log, StartEvent(description, t.time)), FALSE, FALSE)
             ELSE Outcome(log, FALSE, TRUE)
    ELSE Outcome(log, FALSE, FALSE)

\* mutant: stop appends whatever the last event is
StopShouldAdd_Always(log) == TRUE

StopShouldAdd(log) ==
    IF Last(log) = None THEN TRUE ELSE is_start(Unwrap(Last(log)))

\* mutant: the at argument is parsed before the last event is looked at
stop_tracking_EagerAt(log, description, at, now) ==
    LET t == EventTimeArg(at, now)
    IN  IF ~t.ok THEN Outcome(log, FALSE, TRUE)
        ELSE IF StopShouldAdd(log)
        THEN Outcome(Append(log, StopEvent(description, t.time)), FALSE, FALSE)
        ELSE Outcome(log, FALSE, FALSE)

stop_tracking(log, description, at, now) ==
    IF StopShouldAdd(log)
    THEN LET t == EventTimeArg(at, now)
         IN  IF t.ok
             THEN Outcome(Append(log, StopEvent(description, t.time)), FALSE, FALSE)
             ELSE Outcome(log, FALSE, TRUE)
    ELSE Outcome(log, FALSE, FALSE)

\* data.iter().rev().find(|t| t.is_start())
RECURSIVE RFindStart(_, _)
RFindStart(log, i) ==
    IF i = 0 THEN None
    ELSE IF is_start(log[i]) THEN Some(log[i])
    ELSE RFindStart(log, i - 1)

\* mutant: the search runs forward and finds the oldest Start
LastStart_Oldest(log) ==
    IF \E i \in 1..Len(log) : is_start(log[i])
    THEN Some(log[CHOOSE i \in 1..Len(log) :
                      is_start(log[i]) /\ \A j \in 1..(i - 1) : ~is_start(log[j])])
    ELSE None

LastStart(log) == RFindStart(log, Len(log))

\* mutant: the message is printed only when the last event is a Start
continue_tracking_SilentOnEmpty(log, now) ==
    IF Last(log) # None /\ is_stop(Unwrap(Last(log)))
    THEN IF IsSome(LastStart(log))
         THEN Outcome(Append(log, StartEvent(Unwrap(LastStart(log)).description, now)),
                      FALSE, FALSE)
         ELSE Outcome(log, FALSE, FALSE)
    ELSE Outcome(log, log # <<>>, FALSE)

\* mutant: the session is resumed by dropping its Stop
continue_tracking_DropStop(log, now) ==
    IF Last(log) # None /\ is_stop(Unwrap(Last(log)))
    THEN Outcome(SubSeq(log, 1, Len(log) - 1), FALSE, FALSE)
    ELSE Outcome(log, TRUE, FALSE)

continue_tracking(log, now) ==
    IF Last(log) # None /\ is_stop(Unwrap(Last(log)))
    THEN IF IsSome(LastStart(log))
         THEN Outcome(Append(log, StartEvent(Unwrap(LastStart(log)).description, now)),
                      FALSE, FALSE)
         ELSE Outcome(log, FALSE, FALSE)
    ELSE Outcome(log, TRUE, FALSE)

(***************************************************************************)
(* show: the window, the filters, the pairing loop.                        *)
(***************************************************************************)
DateBound(date) == [tag |-> "Date", v |-> date]
DateTimeBound(ndt) == [tag |-> "DateTime", v |-> ndt]

\* parse_date_or_date_time: [ok |-> FALSE] is the panic of the final unwrap
parse_date_or_date_time(s, now) ==
    IF ParsesAsDate(s)
    THEN [ok |-> TRUE, v |-> DateBound(Unwrap(s.date))]
    ELSE IF ParsesAsDateTime(s)
    THEN [ok |-> TRUE, v |-> DateTimeBound(DateTimeValue(s))]
    ELSE IF ParsesAsTime(s)
    THEN [ok |-> TRUE, v |-> DateTimeBound(TimeValue(s, Today(now)))]
    ELSE IF ParsesAsTime(Pad(s))
    THEN [ok |-> TRUE, v |-> DateTimeBound(TimeValue(Pad(s), Today(now)))]
    ELSE IF ParsesAsTime(Pad(Pad(s)))
    THEN [ok |-> TRUE, v |-> DateTimeBound(TimeValue(Pad(Pad(s)), Today(now)))]
    ELSE IF ParsesAsDateTime(Pad(s))
    THEN [ok |-> TRUE, v |-> DateTimeBound(DateTimeValue(Pad(s)))]
    ELSE IF ParsesAsDateTime(Pad(Pad(s)))
    THEN [ok |-> TRUE, v |-> DateTimeBound(DateTimeValue(Pad(Pad(s))))]
    ELSE [ok |-> FALSE, v |-> DateBound(0)]

NoWindow == [fail |-> "unwrap", filter |-> None, from |-> DateBound(0), to |-> DateBound(0)]
Window(filter, from, to) == [fail |-> "", filter |-> filter, from |-> from, to |-> to]

\* the "week" arm.  now.day() - monday_offset is a u32 subtraction: when it
\* underflows, a build with overflow checks panics there, and a build without
\* them wraps to a value of at least 2^32 - 6, which with_day rejects.
WeekWindow(now, overflow_checks) ==
    LET today == Today(now)
        offset == NumDaysFromMonday(today)
        monday_offset == offset
        sunday_offset == 6 - offset
        from == IF DayOf(today) >= monday_offset
                THEN WithDay(today, DayOf(today) - monday_offset)
                ELSE None
        to == WithDay(today, DayOf(today) + sunday_offset)
    IN  IF DayOf(today) < monday_offset /\ overflow_checks
        THEN [NoWindow EXCEPT !.fail = "overflow"]
        ELSE IF from = None \/ to = None
        THEN [NoWindow EXCEPT !.fail = "none"]
        ELSE Window(None, DateBound(Unwrap(from)), DateBound(Unwrap(to)))

\* mutant: a missing to takes the resolved from as it is, an instant included
PlainWindow_ToIsFrom(from, to, filter, now) ==
    LET pf == IF IsSome(from) THEN parse_date_or_date_time(Unwrap(from), now)
              ELSE [ok |-> TRUE, v |-> DateBound(Today(now))]
        pt == IF IsSome(to) THEN parse_date_or_date_time(Unwrap(to), now)
              ELSE [ok |-> TRUE, v |-> pf.v]
    IN  IF ~pf.ok \/ ~pt.ok THEN NoWindow
        ELSE Window(filter, pf.v, pt.v)

\* the other arm
PlainWindow(from, to, filter, now) ==
    LET pf == IF IsSome(from) THEN parse_date_or_date_time(Unwrap(from), now)
              ELSE [ok |-> TRUE, v |-> DateBound(Today(now))]
        pt == IF IsSome(to) THEN parse_date_or_date_time(Unwrap(to), now)
              ELSE [ok |-> TRUE,
                    v |-> IF pf.v.tag = "DateTime"
                          THEN DateBound(DateOfNaive(pf.v.v))
                          ELSE pf.v]
    IN  IF ~pf.ok \/ ~pt.ok THEN NoWindow
        ELSE Window(filter, pf.v, pt.v)

ResolveWindow(from, to, filter, now, overflow_checks) ==
    IF filter = Some(StrWeek)
    THEN WeekWindow(now, overflow_checks)
    ELSE PlainWindow(from, to, filter, now)

\* filter.clone().unwrap_or_default() == "all"
Bypass(filter) == IsSome(filter) /\ Unwrap(filter) = StrAll

LowerInstant(from) ==
    IF from.tag = "Date" THEN FromLocal(NaiveDT(from.v, 0, 0, 0))
    ELSE FromLocal(from.v)
\* mutant: a Date upper bound ends at the first second of its day
UpperInstant_StartOfDay(to) ==
    IF to.tag = "Date" THEN FromLocal(NaiveDT(to.v, 0, 0, 0))
    ELSE FromLocal(to.v)

UpperInstant(to) ==
    IF to.tag = "Date" THEN FromLocal(NaiveDT(to.v, 23, 59, 59))
    ELSE FromLocal(to.v)

\* the three filter closures (timestamps are whole seconds, so the comparison
\* of milliseconds is the comparison of seconds)
PassFrom(e, w) == IF Bypass(w.filter) THEN TRUE ELSE e.time >= LowerInstant(w.from)
\* mutant: the upper bound is applied under "all" too
PassTo_NoBypass(e, w) == e.time <= UpperInstant(w.to)
PassTo(e, w) == IF Bypass(w.filter) THEN TRUE ELSE e.time <= UpperInstant(w.to)
PassDescription(e, w) ==
    IF IsSome(w.filter)
    THEN IF IsSome(e.description)
         THEN Unwrap(w.filter) = StrAll \/ Contains(Unwrap(e.description), Unwrap(w.filter))
         ELSE Unwrap(w.filter) = StrAll
    ELSE TRUE

\* indices of the events the filters keep, in log order
Kept(log, w) ==
    SelectSeq([i \in 1..Len(log) |-> i],
              LAMBDA i : PassFrom(log[i], w) /\ PassTo(log[i], w) /\ PassDescription(log[i], w))

\* mutant: the leading Stops stay in the sequence
SkipStops_Nothing(log, idx) == idx

\* skip_while(is_stop)
RECURSIVE SkipStops(_, _)
SkipStops(log, idx) ==
    IF idx # <<>> /\ is_stop(log[idx[1]]) THEN SkipStops(log, Tail(idx)) ELSE idx

\* mutant: a trailing unmatched event is dropped
RECURSIVE Pairs_NoTrailing(_)
Pairs_NoTrailing(idx) ==
    IF Len(idx) >= 2 THEN <<(<<idx[1], idx[2]>>)>> \o Pairs_NoTrailing(Tail(Tail(idx)))
    ELSE <<>>

\* the loop: the pairs it takes, <<i, 0>> being the trailing unmatched event
RECURSIVE Pairs(_)
Pairs(idx) ==
    IF Len(idx) >= 2 THEN <<(<<idx[1], idx[2]>>)>> \o Pairs(Tail(Tail(idx)))
    ELSE IF Len(idx) = 1 THEN <<(<<idx[1], 0>>)>>
    ELSE <<>>

ShowNow(now, include_seconds) == IF include_seconds THEN now ELSE WithSecond0(now)

\* mutant: the seconds are cut from the difference, not from the timestamps
PairDuration_TruncatesResult(log, p, include_seconds, now) ==
    LET d == IF p[2] # 0 THEN log[p[2]].time - log[p[1]].time
             ELSE now - log[p[1]].time
    IN  IF include_seconds THEN d ELSE d - (d % 60)

PairDuration(log, p, include_seconds, now) ==
    IF p[2] # 0
    THEN EventTime(log[p[2]], include_seconds) - EventTime(log[p[1]], include_seconds)
    ELSE ShowNow(now, include_seconds) - EventTime(log[p[1]], include_seconds)

RECURSIVE WorkDay(_, _, _, _)
WorkDay(log, pairs, include_seconds, now) ==
    IF pairs = <<>> THEN 0
    ELSE PairDuration(log, pairs[1], include_seconds, now)
         + WorkDay(log, Tail(pairs), include_seconds, now)

\* split_duration: Duration::num_hours and num_minutes truncate toward zero
TruncDiv(a, b) == IF a >= 0 THEN a \div b ELSE -((-a) \div b)
split_duration(secs) ==
    LET hours == TruncDiv(secs, 3600)
        minutes == TruncDiv(secs, 60) - hours * 60
        seconds == secs - hours * 3600 - minutes * 60
    IN  <<hours, minutes, seconds>>

show(log, from, to, filter, include_seconds, now, overflow_checks) ==
    LET w == ResolveWindow(from, to, filter, now, overflow_checks)
        kept == Kept(log, w)
        pairs == Pairs(SkipStops(log, kept))
    IN  IF w.fail # ""
        THEN [fail |-> w.fail, window |-> w, kept |-> <<>>, pairs |-> <<>>,
              work_day |-> 0, printed |-> <<0, 0, 0>>]
        ELSE [fail |-> "", window |-> w, kept |-> kept, pairs |-> pairs,
              work_day |-> WorkDay(log, pairs, include_seconds, now),
              printed |-> split_duration(WorkDay(log, pairs, include_seconds, now))]

(***************************************************************************)
(* The inputs the invocations draw from.                                   *)
(***************************************************************************)
\* local wall clock (day ordinal, h, m, s) as an instant
At(date, h, m, s) == FromLocal(NaiveDT(date, h, m, s))

\* readings of the system clock: Wed 2021-03-10, Tue 2021-03-30, Thu 2021-04-01
Clocks == { At(9, 9, 0, 0), At(29, 17, 30, 59), At(31, 0, 0, 0) }

Descriptions == { None, Some(StrAB) }

\* --at: absent, "2021-03-10 08", text no rule accepts
AtArgs == { None, Some(TimeStr(Some(9), <<8>>)), Some(JunkStr) }

\* --from / --to: absent, "2021-03-10", "2021-03-30 12:00", junk
FromArgs == { None, Some(TimeStr(Some(9), <<>>)), Some(TimeStr(Some(29), <<12, 0>>)) }
ToArgs == { None, Some(TimeStr(Some(29), <<>>)), Some(JunkStr) }
FilterArgs == { None, Some(StrWeek), Some(StrAll), Some(StrB) }

NoShow == [fail |-> "", window |-> Window(None, DateBound(0), DateBound(0)),
           kept |-> <<>>, pairs |-> <<>>, work_day |-> 0, printed |-> <<0, 0, 0>>]
NoArgs == [from |-> None, to |-> None, filter |-> None, include_seconds |-> FALSE,
           description |-> None, at |-> None]

(***************************************************************************)
(* main: read_data, the command, write_data.  A panic ends the process     *)
(* before write_data.  Launch is the user starting the binary on a clean   *)
(* terminal; each command action is the whole of main() for that command.  *)
(* out records what the running or last invocation was given and what it   *)
(* did; before is the log read_data returned.                              *)
(***************************************************************************)
\* the data file: absent, text that does not decode, or an encoded log
Missing == [kind |-> "missing", log |-> <<>>]
Corrupt == [kind |-> "corrupt", log |-> <<>>]
Json(log) == [kind |-> "json", log |-> log]

\* an event in memory carries the part of its time below the second (frac);
\* ts_seconds writes the whole seconds only and reads them back with none
Encode(log) ==
    [i \in 1..Len(log) |->
        [kind |-> log[i].kind, description |-> log[i].description, time |-> log[i].time]]
Decode(log) ==
    [i \in 1..Len(log) |->
        [kind |-> log[i].kind, description |-> log[i].description, time |-> log[i].time,
         frac |-> 0]]
\* the events a command pushed onto the n it loaded, stamped by Local::now()
\* unless --at was given
Stamp(log, n, frac) ==
    [i \in 1..Len(log) |->
        IF i <= n THEN log[i]
        ELSE [kind |-> log[i].kind, description |-> log[i].description,
              time |-> log[i].time, frac |-> frac]]

\* mutant: a file that is absent or does not decode is an error
read_data_Strict(st) ==
    [ok |-> st.kind = "json", log |-> IF st.kind = "json" THEN Decode(st.log) ELSE <<>>]

\* read_data: both unwrap_or_default, so it never fails
read_data(st) ==
    [ok |-> TRUE, log |-> IF st.kind = "json" THEN Decode(st.log) ELSE <<>>]

\* write_data
write_data(log) == Json(Encode(log))

Procs == {1, 2}
IdleProc == [pc |-> "idle", cmd |-> "none", seen |-> Missing, loaded |-> <<>>,
             mem |-> <<>>, pushed |-> None, stderr |-> FALSE, panicked |-> FALSE,
             stale |-> FALSE]
MainIdle ==
    /\ store = Missing
    /\ procs = [p \in Procs |-> IdleProc]
    /\ writer = 0

NoOut == [cmd |-> "none", now |-> 0, before |-> <<>>, stderr |-> FALSE,
          panicked |-> FALSE, args |-> NoArgs, show |-> NoShow]

Init ==
    /\ data = <<>>
    /\ clock \in Clocks
    /\ pc = "idle"
    /\ out = NoOut
    /\ MainIdle

Launch ==
    /\ pc = "idle"
    /\ pc' = "running"
    /\ out' = NoOut
    /\ UNCHANGED <<data, clock>>
    /\ UNCHANGED mainVars

Invocation(cmd, now, args, r, bound) ==
    /\ pc = "running"
    /\ now >= clock
    /\ Len(r.log) <= bound
    /\ data' = IF r.panicked THEN data ELSE r.log
    /\ clock' = now
    /\ pc' = "idle"
    /\ out' = [cmd |-> cmd, now |-> now, before |-> data, stderr |-> r.stderr,
               panicked |-> r.panicked, args |-> args, show |-> NoShow]
    /\ UNCHANGED mainVars

StartIn(clocks, descriptions, ats, bound) ==
    \E now \in clocks, description \in descriptions, at \in ats :
        Invocation("start", now,
                   [NoArgs EXCEPT !.description = description, !.at = at],
                   start_tracking(data, description, at, now), bound)

StopIn(clocks, descriptions, ats, bound) ==
    \E now \in clocks, description \in descriptions, at \in ats :
        Invocation("stop", now,
                   [NoArgs EXCEPT !.description = description, !.at = at],
                   stop_tracking(data, description, at, now), bound)

ContinueIn(clocks, bound) ==
    \E now \in clocks :
        Invocation("continue", now, NoArgs, continue_tracking(data, now), bound)

StartWith(ats, bound) == StartIn(Clocks, Descriptions, ats, bound)
StopWith(ats, bound) == StopIn(Clocks, Descriptions, ats, bound)
ContinueWith(bound) == ContinueIn(Clocks, bound)

Start == StartWith(AtArgs, MaxLog)
Stop == StopWith(AtArgs, MaxLog)
Continue == ContinueWith(MaxLog)

ShowIn(clocks, froms, tos, filters) ==
    \E now \in clocks, from \in froms, to \in tos, filter \in filters,
       include_seconds \in BOOLEAN, overflow_checks \in BOOLEAN :
        /\ pc = "running"
        /\ now >= clock
        /\ LET r == show(data, from, to, filter, include_seconds, now, overflow_checks)
           IN  /\ data' = data
               /\ clock' = now
               /\ pc' = "idle"
               /\ out' = [cmd |-> "show", now |-> now, before |-> data, stderr |-> FALSE,
                          panicked |-> r.fail # "",
                          args |-> [NoArgs EXCEPT !.from = from, !.to = to,
                                                  !.filter = filter,
                                                  !.include_seconds = include_seconds],
                          show |-> r]
               /\ UNCHANGED mainVars

Show == ShowIn(Clocks, FromArgs, ToArgs, FilterArgs)

Next == Launch \/ Start \/ Stop \/ Continue \/ Show

Spec == Init /\ [][Next]_vars

\* the same invocations without --at, over longer logs
StartNow == StartWith({None}, MaxDeep)
StopNow == StopWith({None}, MaxDeep)
ContinueNow == ContinueWith(MaxDeep)

NextLog == Launch \/ StartNow \/ StopNow \/ ContinueNow

SpecLog == Init /\ [][NextLog]_vars

(***************************************************************************)
(* One working day, Wed 2021-03-10, with events and bounds on the second:  *)
(* the invocations of SpecDay stamp events with --at; stop is given no     *)
(* description.                                                            *)
(***************************************************************************)
MaxDay == 3

\* the clock reads 09:15:00 or 09:15:59 of that day
DayClocks == { At(9, 9, 15, 0), At(9, 9, 15, 59) }

\* --at: "0:0:0", "9", "09:00:59", "9:1", "17:30", "23:59:59", "2021-03-11 0"
DayAtArgs ==
    { Some(TimeStr(None, <<0, 0, 0>>)), Some(TimeStr(None, <<9>>)),
      Some(TimeStr(None, <<9, 0, 59>>)), Some(TimeStr(None, <<9, 1>>)),
      Some(TimeStr(None, <<17, 30>>)), Some(TimeStr(None, <<23, 59, 59>>)),
      Some(TimeStr(Some(10), <<0>>)) }

\* --from: "2021-03-10", "09:00:59"
DayFromArgs == { Some(TimeStr(Some(9), <<>>)), Some(TimeStr(None, <<9, 0, 59>>)) }
\* --to: absent (the day of from), "2021-03-10 17:30"
DayToArgs == { None, Some(TimeStr(Some(9), <<17, 30>>)) }

StartDay == StartIn(DayClocks, Descriptions, DayAtArgs, MaxDay)
StopDay == StopIn(DayClocks, {None}, DayAtArgs, MaxDay)
ShowDay == ShowIn(DayClocks, DayFromArgs, DayToArgs, {None, Some(StrB)})

InitDay ==
    /\ data = <<>>
    /\ clock \in DayClocks
    /\ pc = "idle"
    /\ out = NoOut
    /\ MainIdle

NextDay == Launch \/ StartDay \/ StopDay \/ ShowDay

SpecDay == InitDay /\ [][NextDay]_vars

(***************************************************************************)
(* main() in three steps, for two processes on one data file.  std::fs     *)
(* reads and writes the file whole, so each of the two is one step.        *)
(***************************************************************************)
MainClocks == { At(29, 17, 30, 59), At(31, 0, 0, 0) }
MainDescriptions == { None }
MainAtArgs == { None, Some(JunkStr) }
MainToArgs == { None, Some(JunkStr) }
MainFilterArgs == { None, Some(StrWeek) }
Fracs == {0, 1}

\* mutant: a panic of the command does not keep main from reaching write_data
AfterCommand_Saves(panicked) == "ran"

\* a panic of the command unwinds main before it reaches write_data
AfterCommand(panicked) == IF panicked THEN "aborted" ELSE "ran"

\* mutant: status takes the last event off the log
status_Pop(log) ==
    Outcome(IF log = <<>> THEN log ELSE SubSeq(log, 1, Len(log) - 1), FALSE, FALSE)

\* status reads data.last() and prints
status(log) == Outcome(log, FALSE, FALSE)
\* List prints every event
list(log) == Outcome(log, FALSE, FALSE)
\* Path prints the path of the data file
path(log) == Outcome(log, FALSE, FALSE)

\* let mut data = read_data(&path)
ReadData(p) ==
    LET me == procs[p]
        r == read_data(store)
    IN
    /\ me.pc \in {"idle", "aborted", "done"}
    /\ procs' = [procs EXCEPT ![p] =
                    [pc |-> IF r.ok THEN "loaded" ELSE "aborted", cmd |-> "none",
                     seen |-> store, loaded |-> r.log, mem |-> r.log, pushed |-> None,
                     stderr |-> FALSE, panicked |-> ~r.ok, stale |-> FALSE]]
    /\ UNCHANGED <<data, clock, pc, out, store, writer>>

\* the arm of `match command` that process p takes, with outcome r
Command(p, cmd, now, r, frac) ==
    LET me == procs[p]
        n == Len(me.mem)
        mem == IF r.panicked THEN me.mem ELSE Stamp(r.log, n, frac)
    IN
    /\ me.pc = "loaded"
    /\ now >= clock
    /\ Len(mem) <= MaxStore
    /\ procs' = [procs EXCEPT ![p] =
                    [me EXCEPT !.pc = AfterCommand(r.panicked), !.cmd = cmd, !.mem = mem,
                               !.pushed = IF Len(mem) > n THEN Some(mem[Len(mem)]) ELSE None,
                               !.stderr = r.stderr, !.panicked = r.panicked]]
    /\ clock' = now
    /\ UNCHANGED <<data, pc, out, store, writer>>

StartMain(p) ==
    \E now \in MainClocks, description \in MainDescriptions, at \in MainAtArgs,
       frac \in Fracs :
        /\ IsSome(at) => frac = 0
        /\ Command(p, "start", now, start_tracking(procs[p].mem, description, at, now), frac)

StopMain(p) ==
    \E now \in MainClocks, at \in MainAtArgs, frac \in Fracs :
        /\ IsSome(at) => frac = 0
        /\ Command(p, "stop", now, stop_tracking(procs[p].mem, None, at, now), frac)

ContinueMain(p) ==
    \E now \in MainClocks, frac \in Fracs :
        Command(p, "continue", now, continue_tracking(procs[p].mem, now), frac)

ShowMain(p) ==
    \E now \in MainClocks, to \in MainToArgs, filter \in MainFilterArgs :
        LET r == show(procs[p].mem, None, to, filter, TRUE, now, TRUE)
        IN  Command(p, "show", now, Outcome(procs[p].mem, FALSE, r.fail # ""), 0)

StatusMain(p) == Command(p, "status", clock, status(procs[p].mem), 0)
ListMain(p) == Command(p, "list", clock, list(procs[p].mem), 0)
PathMain(p) == Command(p, "path", clock, path(procs[p].mem), 0)

\* mutant: the save appends what the process pushed to what the file holds
SaveStore_Merge(st, me) == Json(read_data(st).log \o Encode(me.pushed))

\* write_data(path, &data): the file becomes the log the process holds
SaveStore(st, me) == write_data(me.mem)

WriteData(p) ==
    /\ procs[p].pc = "ran"
    /\ store' = SaveStore(store, procs[p])
    /\ writer' = p
    /\ procs' = [q \in Procs |->
                    IF q = p THEN [procs[q] EXCEPT !.pc = "done"]
                    ELSE [procs[q] EXCEPT !.stale = (procs[q].pc # "idle")]]
    /\ UNCHANGED <<data, clock, pc, out>>

InitMain ==
    /\ data = <<>>
    /\ clock \in MainClocks
    /\ pc = "idle"
    /\ out = NoOut
    /\ store \in {Missing, Corrupt, Json(<<>>)}
    /\ procs = [p \in Procs |-> IdleProc]
    /\ writer = 0

NextMain ==
    \E p \in Procs :
        \/ ReadData(p)
        \/ StartMain(p)
        \/ StopMain(p)
        \/ ContinueMain(p)
        \/ ShowMain(p)
        \/ StatusMain(p)
        \/ ListMain(p)
        \/ PathMain(p)
        \/ WriteData(p)

SpecMain == InitMain /\ [][NextMain]_vars

TypeOK ==
    /\ clock \in Clocks
    /\ store = Missing
    /\ pc \in {"idle", "running"}
    /\ out.cmd \in {"none", "start", "stop", "continue", "show"}

(***************************************************************************)
(* Properties.                                                             *)
(***************************************************************************)
Mutating == out.cmd \in {"start", "stop", "continue"}
IsPrefix(a, b) == Len(a) <= Len(b) /\ SubSeq(b, 1, Len(a)) = a
LastIs(log, kind) == log # <<>> /\ log[Len(log)].kind = kind

\* C1 (as stated): the event at every odd position of the log is a Start and
\* the event at every even position is a Stop.
C1_StartAtOdd ==
    \A i \in 1..Len(data) :
        data[i].kind = (IF i % 2 = 1 THEN "Start" ELSE "Stop")

\* C1 (amended): the log alternates in kind, no two adjacent events are both
\* Start or both Stop; it begins with a Stop when stop was the first call to
\* append.
C1_Alternates ==
    \A i \in 1..(Len(data) - 1) : data[i].kind # data[i + 1].kind

C1_Witness ==
    /\ out.cmd \in {"start", "stop"}
    /\ Len(data) = 3
    /\ Len(out.before) = 2
    /\ data[1].kind = "Stop"

\* C2: start called when the last event is a Start, and stop called when the
\* last event is a Stop, leave the log as it was and emit no message, whatever
\* the description and at arguments are.
C2_RedundantIsSilentNoOp ==
    /\ (out.cmd = "start" /\ LastIs(out.before, "Start"))
           => (data = out.before /\ ~out.stderr /\ ~out.panicked)
    /\ (out.cmd = "stop" /\ LastIs(out.before, "Stop"))
           => (data = out.before /\ ~out.stderr /\ ~out.panicked)

C2_Witness ==
    /\ out.cmd = "stop"
    /\ LastIs(out.before, "Stop")
    /\ out.args.at = Some(JunkStr)
    /\ out.args.description # None

\* C4: continue on an empty log reports a message and leaves the log empty.
C4_ContinueOnEmptyReports ==
    (out.cmd = "continue" /\ out.before = <<>>)
        => (out.stderr /\ data = <<>> /\ ~out.panicked)

C4_Witness == out.cmd = "continue" /\ out.before = <<>> /\ out.stderr

\* C5 (as stated): continue called when the last event is a Start appends
\* nothing and reports no message.
C5_ContinueOnStartIsSilent ==
    (out.cmd = "continue" /\ LastIs(out.before, "Start"))
        => (data = out.before /\ ~out.stderr)

\* C6: after one call of start, stop or continue the previous log is a prefix
\* of the new log and the length has grown by at most one.
C6_AppendOnly ==
    Mutating => (IsPrefix(out.before, data) /\ Len(data) <= Len(out.before) + 1)

C6_Witness ==
    /\ out.cmd = "continue"
    /\ Len(out.before) = 2
    /\ Len(data) = 3

\* C3 (as stated): whenever the last event is a Stop, continue appends one
\* Start whose description is that of the most recent Start of the log and
\* whose time is now.
C3_ContinueAppendsStart ==
    (out.cmd = "continue" /\ LastIs(out.before, "Stop"))
        => \E i \in 1..Len(out.before) :
               /\ out.before[i].kind = "Start"
               /\ \A j \in (i + 1)..Len(out.before) : out.before[j].kind # "Start"
               /\ data = Append(out.before,
                                StartEvent(out.before[i].description, out.now))

\* C3 (amended): whenever the last event is a Stop and the log holds a Start,
\* continue appends one Start whose description is that of the most recent
\* Start and whose time is now; when the log holds no Start (it is the single
\* Stop that stop appended to the empty log) continue leaves it as it was and
\* reports nothing.
C3_ContinueAppendsStartIfAny ==
    (out.cmd = "continue" /\ LastIs(out.before, "Stop"))
        => IF \E i \in 1..Len(out.before) : out.before[i].kind = "Start"
           THEN \E i \in 1..Len(out.before) :
                    /\ out.before[i].kind = "Start"
                    /\ \A j \in (i + 1)..Len(out.before) : out.before[j].kind # "Start"
                    /\ data = Append(out.before,
                                     StartEvent(out.before[i].description, out.now))
           ELSE data = out.before /\ ~out.stderr /\ ~out.panicked

\* two Starts of different descriptions precede the Stop that is continued
C3_Witness ==
    /\ out.cmd = "continue"
    /\ Len(out.before) = 4
    /\ out.before[1].kind = "Start"
    /\ out.before[3].kind = "Start"
    /\ out.before[1].description # out.before[3].description
    /\ out.before[4].description # out.before[3].description
    /\ Len(data) = 5

ShowDone == out.cmd = "show" /\ ~out.panicked
AllIndices(log) == [i \in 1..Len(log) |-> i]
\* the log alternates Start, Stop, ... beginning with a Start
WellFormed(log) ==
    \A i \in 1..Len(log) : log[i].kind = (IF i % 2 = 1 THEN "Start" ELSE "Stop")

\* C7 (as stated): the total duration show reports is non-negative for every
\* log reachable through start, stop (with or without at) and continue, every
\* window, every filter and every now.
C7_TotalNonNegative == ShowDone => out.show.work_day >= 0

\* C8 (as stated): with filter "week" show succeeds and its window is the whole
\* days Monday to Sunday of the calendar week holding today, whatever from and
\* to are.
C8_WeekWindow ==
    (out.cmd = "show" /\ out.args.filter = Some(StrWeek))
        => /\ ~out.panicked
           /\ out.show.window.from
                  = DateBound(Today(out.now) - NumDaysFromMonday(Today(out.now)))
           /\ out.show.window.to
                  = DateBound(Today(out.now) - NumDaysFromMonday(Today(out.now)) + 6)

\* C9 (as stated): for a log that alternates beginning with a Start, every
\* interval show sums runs from a Start to the Stop next to it in the log, or
\* from the log's last, unterminated Start to now.
C9_SumsOnlySessions ==
    (ShowDone /\ WellFormed(out.before))
        => \A k \in 1..Len(out.show.pairs) :
               LET p == out.show.pairs[k]
               IN  /\ out.before[p[1]].kind = "Start"
                   /\ IF p[2] # 0
                      THEN p[2] = p[1] + 1
                      ELSE p[1] = Len(out.before)

\* C10: with the filter "all" every event of the log passes the filters, the
\* window and the description predicate are not applied.
C10_AllBypassesFilters ==
    (ShowDone /\ out.args.filter = Some(StrAll))
        => out.show.kept = AllIndices(out.before)

\* an event before the lower bound, one after the upper bound, one without
\* description, all kept
C10_Witness ==
    /\ ShowDone
    /\ out.args.filter = Some(StrAll)
    /\ \E i \in 1..Len(out.before) :
           out.before[i].time < LowerInstant(out.show.window.from)
    /\ \E i \in 1..Len(out.before) :
           out.before[i].time > UpperInstant(out.show.window.to)
    /\ \E i \in 1..Len(out.before) : out.before[i].description = None
    /\ Len(out.show.kept) = 3

\* the calendar day of the lower bound show resolved
FromDay ==
    IF out.show.window.from.tag = "Date"
    THEN out.show.window.from.v
    ELSE out.show.window.from.v \div 86400
\* the last second of a local calendar day, as an instant
EndOfDay(date) == date * 86400 + 86399 + TzWest
NoTo == ShowDone /\ out.args.to = None /\ out.args.filter # Some(StrWeek)

\* C12 (as stated): given no to (and a filter other than "week"), the upper
\* bound is the whole calendar day of the resolved from, today when from is
\* absent, and no event after local 23:59:59 of that day is counted.
C12_NoToIsFromDay ==
    NoTo => /\ out.show.window.to = DateBound(FromDay)
            /\ out.args.from = None => FromDay = Today(out.now)
            /\ \A k \in 1..Len(out.show.kept) :
                   out.before[out.show.kept[k]].time <= EndOfDay(FromDay)

\* C12 (amended): given no to (and a filter other than "week"), the upper
\* bound is the whole calendar day of the resolved from, today when from is
\* absent; unless the filter is "all", which applies no window, no event after
\* local 23:59:59 of that day is counted.
C12_NoToIsFromDayUnlessAll ==
    NoTo => /\ out.show.window.to = DateBound(FromDay)
            /\ out.args.from = None => FromDay = Today(out.now)
            /\ out.args.filter # Some(StrAll)
                   => \A k \in 1..Len(out.show.kept) :
                          out.before[out.show.kept[k]].time <= EndOfDay(FromDay)

\* from is an instant; an event later that day is kept, one of a later day is not
C12_Witness ==
    /\ NoTo
    /\ out.args.filter = None
    /\ out.show.window.from.tag = "DateTime"
    /\ \E k \in 1..Len(out.show.kept) :
           out.before[out.show.kept[k]].time > FromLocal(out.show.window.from.v)
    /\ \E i \in 1..Len(out.before) : out.before[i].time > EndOfDay(FromDay)

\* C17: the leading run of Stop events of the filtered sequence is skipped
\* before pairing: a view of Stops alone totals zero, and otherwise the first
\* pair begins at the first Start in view and no Stop before it is paired.
C17_LeadingStopsSkipped ==
    ShowDone =>
        LET kept == out.show.kept
            starts == { k \in 1..Len(kept) : out.before[kept[k]].kind = "Start" }
        IN  IF starts = {}
            THEN out.show.pairs = <<>> /\ out.show.work_day = 0
            ELSE /\ out.show.pairs # <<>>
                 /\ \A k \in starts :
                        (\A j \in starts : k <= j) => out.show.pairs[1][1] = kept[k]

C17_Witness ==
    /\ ShowDone
    /\ Len(out.show.kept) = 3
    /\ out.before[out.show.kept[1]].kind = "Stop"
    /\ out.show.pairs = << <<out.show.kept[2], out.show.kept[3]>> >>

\* the instant at which a bound of the window lies
BoundInstant(b, secondOfDay) ==
    IF b.tag = "Date" THEN b.v * 86400 + secondOfDay + TzWest ELSE b.v + TzWest
InWindow(e) ==
    /\ e.time >= BoundInstant(out.show.window.from, 0)
    /\ e.time <= BoundInstant(out.show.window.to, 86399)
DescribedBy(e, filter) ==
    filter = None \/ (e.description # None /\ Contains(e.description[1], filter[1]))

\* C11: the window bounds are inclusive.  An event is kept exactly when its
\* time lies from local 00:00:00 of a Date lower bound (or the instant of a
\* DateTime one) to local 23:59:59 of a Date upper bound (or the instant of a
\* DateTime one), both ends included; an event at 00:00:00 of the next day is
\* dropped.
C11_BoundsInclusive ==
    ShowDone =>
        \A i \in 1..Len(out.before) :
            (\E k \in 1..Len(out.show.kept) : out.show.kept[k] = i)
                <=> (InWindow(out.before[i]) /\ DescribedBy(out.before[i], out.args.filter))

\* Date bounds: events at 00:00:00 and at 23:59:59 of the day are kept, the
\* one at 00:00:00 of the next day is dropped
C11_Witness ==
    /\ ShowDone
    /\ out.args.filter = None
    /\ out.show.window.from = DateBound(9)
    /\ out.show.window.to = DateBound(9)
    /\ Len(out.before) = 3
    /\ out.before[1].time = At(9, 0, 0, 0)
    /\ out.before[2].time = At(9, 23, 59, 59)
    /\ out.before[3].time = At(10, 0, 0, 0)
    /\ out.show.kept = <<1, 2>>

\* the time show subtracts: the timestamp, its seconds zeroed without -s
Zeroed(t) == (t \div 60) * 60
TimeUsed(t) == IF out.args.include_seconds THEN t ELSE Zeroed(t)
\* the filtered sequence after its leading Stops
LeadingStops(log, idx) ==
    IF \E k \in 1..Len(idx) : log[idx[k]].kind = "Start"
    THEN (CHOOSE k \in 1..Len(idx) :
              /\ log[idx[k]].kind = "Start"
              /\ \A j \in 1..(k - 1) : log[idx[j]].kind = "Stop") - 1
    ELSE Len(idx)
Paired == SubSeq(out.show.kept, LeadingStops(out.before, out.show.kept) + 1,
                 Len(out.show.kept))
RECURSIVE SumOfPairs(_, _)
SumOfPairs(seq, k) ==
    IF k = 0 THEN 0
    ELSE TimeUsed(out.before[seq[2 * k]].time) - TimeUsed(out.before[seq[2 * k - 1]].time)
         + SumOfPairs(seq, k - 1)
BlindTotal ==
    SumOfPairs(Paired, Len(Paired) \div 2)
    + (IF Len(Paired) % 2 = 1
       THEN TimeUsed(out.now) - TimeUsed(out.before[Paired[Len(Paired)]].time)
       ELSE 0)

\* C16: the total of show is the blind left to right pairing of the filtered
\* sequence after its leading Stops: the sum over each complete pair of the
\* second time minus the first, whatever the kinds, plus now minus the last
\* time when the count is odd.  A lone Start at T shown at T + 15 min gives
\* 00:15:00; Start 09:00:00 and Stop 17:30:00 give 08:30:00.
C16_BlindPairing ==
    ShowDone =>
        /\ out.show.work_day = BlindTotal
        /\ (/\ Len(out.before) = 1
            /\ out.before[1].kind = "Start"
            /\ out.show.kept = <<1>>
            /\ out.now = out.before[1].time + 900)
               => out.show.printed = <<0, 15, 0>>
        /\ (/\ Len(out.before) = 2
            /\ out.before[1] = StartEvent(out.before[1].description, At(9, 9, 0, 0))
            /\ out.before[2] = StopEvent(None, At(9, 17, 30, 0))
            /\ out.show.kept = <<1, 2>>)
               => out.show.printed = <<8, 30, 0>>

\* the description filter leaves two Starts, which are paired with each other
C16_Witness ==
    /\ ShowDone
    /\ Len(out.before) = 3
    /\ out.show.kept = <<1, 3>>
    /\ out.before[3].kind = "Start"
    /\ out.show.pairs = << <<1, 3>> >>
    /\ out.show.work_day > 0

Untouched(p) == ~procs[p].stale

\* C13: an invocation that panics (an --at string no rule parses where start
\* or stop would push, a show that fails) never reaches the save: as long as
\* no other process saves, the data file is what it was when it was read.
C13_AbortLeavesStore ==
    \A p \in Procs :
        (procs[p].panicked /\ Untouched(p)) => store = procs[p].seen

\* a start with an unparsable --at and a failing show have both panicked on
\* a file that holds events
C13_Witness ==
    \E p, q \in Procs :
        /\ procs[p].panicked /\ procs[p].cmd = "start" /\ Untouched(p)
        /\ procs[q].panicked /\ procs[q].cmd = "show" /\ Untouched(q)
        /\ store.kind = "json" /\ store.log # <<>>

\* p and q both read the file before either wrote it, both have written, and
\* p wrote last
Overlapped(p, q) ==
    /\ p # q
    /\ procs[p].pc = "done" /\ procs[q].pc = "done"
    /\ writer = p
    /\ procs[p].stale

\* C14: when two invocations overlap, the file afterwards is the whole log of
\* the one that wrote last, which is what it had read plus what it pushed;
\* nothing is merged, so the file never holds the events of both.
C14_LastWriterWins ==
    \A p, q \in Procs :
        Overlapped(p, q) =>
            /\ store = Json(Encode(procs[p].mem))
            /\ store.log = Encode(procs[p].loaded) \o Encode(procs[p].pushed)
            /\ (procs[q].pushed # None /\ procs[q].loaded = procs[p].loaded) =>
                   Len(store.log) < Len(procs[q].mem) + Len(procs[p].pushed)

\* both read the same log and each pushed an event of its own
C14_Witness ==
    \E p, q \in Procs :
        /\ Overlapped(p, q)
        /\ procs[q].loaded = procs[p].loaded
        /\ procs[p].pushed # None /\ procs[q].pushed # None
        /\ Unwrap(procs[p].pushed).kind # Unwrap(procs[q].pushed).kind
        /\ Encode(procs[q].pushed)[1] \notin { store.log[i] : i \in 1..Len(store.log) }

\* what each command leaves in memory when it runs on the empty log
ResultOnEmpty(me) ==
    CASE me.cmd = "start" -> Len(me.mem) = 1 /\ me.mem[1].kind = "Start"
      [] me.cmd = "stop" -> Len(me.mem) = 1 /\ me.mem[1].kind = "Stop"
      [] me.cmd = "continue" -> me.mem = <<>> /\ me.stderr
      [] OTHER -> me.mem = <<>>

\* C15: a data file that is absent or does not decode does not fail the load:
\* the process holds the empty log, the command runs on it, and what the
\* process then saves is the command's result on the empty log.
C15_BadStoreIsEmpty ==
    \A p \in Procs :
        (procs[p].pc # "idle" /\ procs[p].seen.kind # "json") =>
            /\ procs[p].cmd = "none" => procs[p].pc = "loaded"
            /\ procs[p].loaded = <<>>
            /\ procs[p].pc \in {"ran", "done"} => ResultOnEmpty(procs[p])
            /\ (procs[p].pc = "done" /\ writer = p) =>
                   store = Json(Encode(procs[p].mem))

\* a start that read a file that does not decode has saved its one event
C15_Witness ==
    \E p \in Procs :
        /\ procs[p].seen = Corrupt
        /\ procs[p].pc = "done" /\ procs[p].cmd = "start" /\ writer = p
        /\ Len(store.log) = 1 /\ store.log[1].kind = "Start"

ReadOnly == {"show", "status", "list", "path"}

\* C20: show, status, list and path leave the log in memory as it was read,
\* so although the invocation writes the file again, reading the file after
\* it has finished yields the sequence it read at its start.
C20_ReadOnlyKeepsLog ==
    \A p \in Procs :
        (procs[p].cmd \in ReadOnly /\ procs[p].pc \in {"ran", "done"}) =>
            /\ procs[p].mem = procs[p].loaded
            /\ (procs[p].pc = "done" /\ writer = p) =>
                   /\ store.kind = "json"
                   /\ Decode(store.log) = procs[p].loaded

\* a status that read a log with events has written the file again
C20_Witness ==
    \E p \in Procs :
        /\ procs[p].cmd = "status" /\ procs[p].pc = "done" /\ writer = p
        /\ procs[p].loaded # <<>>
        /\ store.log # <<>>

====
